---------------------------- MODULE Spec2Model ----------------------------
(***************************************************************************)
(* Model of the notebook "Simple predictive models/savedata.ipynb": the    *)
(* measurement loader (cell 4), find_missing_dates (cell 5), the reporting *)
(* loop (cell 6), save_data (cell 7) and the final save_data call (cell 8).*)
(*                                                                         *)
(* A calendar date is modelled by its day number; the date d is rendered   *)
(* as the d-th of January 2020, so date + timedelta(x) is d + x and        *)
(* (end - start).days is end - start.                                      *)
(***************************************************************************)
EXTENDS Integers, Sequences, FiniteSets, TLC

VARIABLES
    pc,        \* position of the run: which cell / loop is executing
    ids,       \* cell 3: the station ids returned by the Station query
    id2data,   \* cell 4: dict station id -> series (sequence of rows)
    i,         \* index of the current iteration of a "for id_i in ids" loop
    missing,   \* global name `missing`:  <<>> = unbound, <<v>> = bound to v
    misssing,  \* global name `misssing`: <<>> = unbound, <<v>> = bound to v
    out,       \* lines printed by the reporting loop, in order
    err,       \* the uncaught exception that ended the run, or "none"
    path,      \* save_data's path argument
    saved,     \* keys of datadict save_data's loop has already visited
    files,     \* files written by to_csv: full path -> text
    dates,     \* argument of a direct call of find_missing_dates
    ret        \* <<>> before that call returns, <<result>> after

vars == <<pc, ids, id2data, i, missing, misssing, out, err, path, saved,
          files, dates, ret>>

---------------------------------------------------------------------------
\* Bounds of the model.

\* find_missing_dates called directly: dates are 1..MaxDate, up to MaxLen of them
MaxDate == 4
MaxLen == 4
\* the notebook run: each loaded series has up to RunMaxLen rows on days 1..RunMaxDate
RunMaxDate == 2
RunMaxLen == 2
\* save_data called directly: each series has up to SaveMaxLen rows
SaveMaxLen == 2

\* station ids, the first two of the recorded run
StationIds == {395, 399}
\* days of the month used by the series handed to save_data directly
SaveDates == {5, 10}
\* measurement cells: <<>> is a missing value (NaN), <<n>> the number n
RunValues == {<<7>>}
SaveValues == {<<>>, <<-3>>, <<12>>}
\* values of save_data's path argument; the first is its default
DefaultPath == "./data/"
Paths == {DefaultPath, "/tmp/"}

\* sequences over S of length 0..n
SeqUpTo(S, n) == UNION {[1..k -> S] : k \in 0..n}

SetOf(s) == {s[k] : k \in DOMAIN s}

---------------------------------------------------------------------------
\* Python built-ins used by the notebook.

\* range(n): empty when n <= 0
Range(n) == 0..(n - 1)

\* sorted(S) of a set of dates: ascending list
RECURSIVE Sorted(_)
Sorted(S) ==
    IF S = {} THEN <<>>
    ELSE LET m == CHOOSE x \in S : \A y \in S : x <= y
         IN <<m>> \o Sorted(S \ {m})

\* truth value of a list
Truthy(v) == Len(v) > 0

---------------------------------------------------------------------------
\* Cell 5: find_missing_dates.  The caller guarantees len(dates) > 0;
\* on an empty list dates_list[0] raises IndexError (see the callers).

find_missing_dates_nosort(ds) ==
    LET start == ds[1]
        end == ds[Len(ds)]
        completed_dates == {start + x : x \in Range(end - start)}
    IN SelectSeq(ds, LAMBDA d : d \notin completed_dates)

find_missing_dates_swapped(ds) ==
    LET start == ds[1]
        end == ds[Len(ds)]
        completed_dates == {start + x : x \in Range(end - start)}
    IN Sorted(completed_dates \ SetOf(ds))

find_missing_dates(ds) ==
    LET dates_list == ds
        start == dates_list[1]
        end == dates_list[Len(dates_list)]
        completed_dates == {start + x : x \in Range(end - start)}
        missing_ == SetOf(dates_list) \ completed_dates
    IN Sorted(missing_)

\* A direct call find_missing_dates(dates).
CallFindMissingDates ==
    /\ pc = "call"
    /\ IF Len(dates) = 0
       THEN /\ pc' = "aborted"
            /\ err' = "IndexError"
            /\ ret' = ret
       ELSE /\ pc' = "returned"
            /\ err' = err
            /\ ret' = <<find_missing_dates(dates)>>
    /\ UNCHANGED <<ids, id2data, i, missing, misssing, out, path, saved,
                   files, dates>>

InitFmd ==
    /\ pc = "call"
    /\ dates \in SeqUpTo(1..MaxDate, MaxLen)
    /\ ret = <<>>
    /\ ids = <<>>
    /\ id2data = <<>>
    /\ i = 1
    /\ missing = <<>>
    /\ misssing = <<>>
    /\ out = <<>>
    /\ err = "none"
    /\ path = DefaultPath
    /\ saved = {}
    /\ files = <<>>

NextFmd == CallFindMissingDates

SpecFmd == InitFmd /\ [][NextFmd]_vars

---------------------------------------------------------------------------
\* Series: a DataFrame is modelled by the sequence of its rows; its columns
\* are stations_id and mess_datum (cells 3, 4, 6) and one measurement column.

Row(id, d, v) == [stations_id |-> id, mess_datum |-> d, value |-> v]

\* the series the DailyMeasurement query of cell 4 can return for station id:
\* rows of that station, in the order the database returns them
SeriesOf(id, ds, vals, n) == SeqUpTo({Row(id, d, v) : d \in ds, v \in vals}, n)

\* data.mess_datum: the date column
MessDatum(data) == [k \in DOMAIN data |-> data[k].mess_datum]

\* d[key] = value on a dict
DictSet(d, key, value) ==
    [k \in DOMAIN d \cup {key} |-> IF k = key THEN value ELSE d[k]]

\* d.pop(key)
DictPop(d, key) == [k \in DOMAIN d \ {key} |-> d[k]]

\* injective sequences over S: the ids of a query over a primary key
IdSeqs(S) == {s \in SeqUpTo(S, Cardinality(S)) :
                 \A a, b \in DOMAIN s : a # b => s[a] # s[b]}

---------------------------------------------------------------------------
\* Text: a string whose characters are inspected is a sequence of
\* one-character strings.

DigitChar == <<"0", "1", "2", "3", "4", "5", "6", "7", "8", "9">>

\* str(n) for n >= 0, as characters
RECURSIVE NatChars(_)
NatChars(n) ==
    IF n < 10 THEN <<DigitChar[n + 1]>>
    ELSE NatChars(n \div 10) \o <<DigitChar[(n % 10) + 1]>>

\* str(n) of an integer, as characters
IntChars(n) == IF n < 0 THEN <<"-">> \o NatChars(-n) ELSE NatChars(n)

\* str(n) of an integer, as a string
RECURSIVE Concat(_)
Concat(cs) == IF cs = <<>> THEN "" ELSE Head(cs) \o Concat(Tail(cs))

Str(n) == Concat(IntChars(n))

\* str(date): ISO format of the d-th of January 2020
DatePrefix == <<"2", "0", "2", "0", "-", "0", "1", "-">>
DateChars(d) == DatePrefix \o <<DigitChar[(d \div 10) + 1], DigitChar[(d % 10) + 1]>>

\* a measurement cell: the empty string for a missing value (na_rep = '')
ValueChars(v) == IF v = <<>> THEN <<>> ELSE IntChars(v[1])

\* data.columns
Columns ==
    << <<"s", "t", "a", "t", "i", "o", "n", "s", "_", "i", "d">>,
       <<"m", "e", "s", "s", "_", "d", "a", "t", "u", "m">>,
       <<"v", "a", "l", "u", "e">> >>

RowCells(row) ==
    <<IntChars(row.stations_id), DateChars(row.mess_datum), ValueChars(row.value)>>

\* sep.join(cells)
RECURSIVE Join(_, _)
Join(cells, sep) ==
    IF cells = <<>> THEN <<>>
    ELSE IF Len(cells) = 1 THEN cells[1]
    ELSE cells[1] \o <<sep>> \o Join(Tail(cells), sep)

RECURSIVE CsvLines(_, _)
CsvLines(rows, sep) ==
    IF rows = <<>> THEN <<>>
    ELSE Join(rows[1], sep) \o <<"\n">> \o CsvLines(Tail(rows), sep)

\* data.to_csv(full_path, sep = ';', columns = data.columns, index = False)
\* with the index column written as well (index = True)
ToCsvWithIndex(data) ==
    CsvLines(<< <<<<>>>> \o Columns >>
             \o [k \in DOMAIN data |-> <<NatChars(k - 1)>> \o RowCells(data[k])],
             ";")

\* data.to_csv(full_path, sep = ';', columns = data.columns, index = False):
\* the header row, then one line per row, cells separated by ';'
ToCsv(data) ==
    CsvLines(<<Columns>> \o [k \in DOMAIN data |-> RowCells(data[k])], ";")

---------------------------------------------------------------------------
\* Reading a file back as semicolon-delimited text with a header row: the
\* lines are split at the line ends, each line at the separator; the first
\* line gives the column names, and the cells of the others are parsed by
\* column: stations_id an integer, mess_datum a date, value a number or,
\* when the cell is empty, a missing value.

Digits == SetOf(DigitChar)
DigitVal(c) == CHOOSE n \in 0..9 : DigitChar[n + 1] = c

IsNat(cs) == cs # <<>> /\ \A k \in DOMAIN cs : cs[k] \in Digits
IsInt(cs) == IsNat(cs) \/ (cs # <<>> /\ cs[1] = "-" /\ IsNat(Tail(cs)))
IsDate(cs) == Len(cs) = 10 /\ SubSeq(cs, 1, 8) = DatePrefix /\ IsNat(SubSeq(cs, 9, 10))

RECURSIVE ParseNat(_)
ParseNat(cs) ==
    IF Len(cs) = 1 THEN DigitVal(cs[1])
    ELSE 10 * ParseNat(SubSeq(cs, 1, Len(cs) - 1)) + DigitVal(cs[Len(cs)])

ParseInt(cs) == IF cs[1] = "-" THEN 0 - ParseNat(Tail(cs)) ELSE ParseNat(cs)
ParseDate(cs) == ParseNat(SubSeq(cs, 9, 10))
ParseValue(cs) == IF cs = <<>> THEN <<>> ELSE <<ParseInt(cs)>>

\* the fields of s between occurrences of sep
RECURSIVE Split(_, _)
Split(s, sep) ==
    IF \A k \in DOMAIN s : s[k] # sep THEN <<s>>
    ELSE LET k == CHOOSE j \in DOMAIN s :
                      s[j] = sep /\ \A h \in 1..(j - 1) : s[h] # sep
         IN <<SubSeq(s, 1, k - 1)>> \o Split(SubSeq(s, k + 1, Len(s)), sep)

\* the lines of a text; the line end after the last line starts no new line
ReadLines(text) ==
    LET parts == Split(text, "\n")
    IN IF parts[Len(parts)] = <<>> THEN SubSeq(parts, 1, Len(parts) - 1) ELSE parts

WellFormedLine(cells) ==
    /\ Len(cells) = Len(Columns)
    /\ IsInt(cells[1])
    /\ IsDate(cells[2])
    /\ cells[3] = <<>> \/ IsInt(cells[3])

\* the table read: its column names and its rows; a file with a line that
\* does not fit the columns is read as no table
ReadCsv(text) ==
    LET lines == ReadLines(text)
        table == [k \in DOMAIN lines |-> Split(lines[k], ";")]
    IN IF lines = <<>> \/ \E k \in 2..Len(table) : ~WellFormedLine(table[k])
       THEN [columns |-> <<>>, rows |-> <<>>]
       ELSE [columns |-> table[1],
             rows |-> [k \in 1..(Len(table) - 1) |->
                          Row(ParseInt(table[k + 1][1]),
                              ParseDate(table[k + 1][2]),
                              ParseValue(table[k + 1][3]))]]

---------------------------------------------------------------------------
\* Cell 4: the measurement loader.

LoadStep ==
    /\ pc = "load"
    /\ i <= Len(ids)
    /\ \E measures_for_id \in SeriesOf(ids[i], 1..RunMaxDate, RunValues, RunMaxLen) :
          id2data' = DictSet(id2data, ids[i], measures_for_id)
    /\ i' = i + 1
    /\ UNCHANGED <<pc, ids, missing, misssing, out, err, path, saved, files,
                   dates, ret>>

\* the loader's loop ends; cell 6 starts
LoadDone ==
    /\ pc = "load"
    /\ i > Len(ids)
    /\ pc' = "check"
    /\ i' = 1
    /\ UNCHANGED <<ids, id2data, missing, misssing, out, err, path, saved,
                   files, dates, ret>>

---------------------------------------------------------------------------
\* Cell 6: the reporting loop.  One iteration:
\*     data = id2data[id_i]
\*     misssing = find_missing_dates(data.mess_datum)
\*     if missing: print(... following days are missing) else: print(... no missing days)
\* An exception ends the run: nothing in the notebook catches it.

\* the iteration with the condition reading the name the iteration assigns
CheckStepReadsMisssing ==
    /\ pc = "check"
    /\ i <= Len(ids)
    /\ LET id_i == ids[i]
           data == id2data[id_i]
       IN IF Len(MessDatum(data)) = 0
          THEN /\ pc' = "aborted"
               /\ err' = "IndexError"
               /\ UNCHANGED <<misssing, out, i>>
          ELSE /\ misssing' = <<find_missing_dates(MessDatum(data))>>
               /\ out' = Append(out, [id |-> id_i,
                            branch |-> IF Truthy(misssing'[1])
                                       THEN "missing" ELSE "none"])
               /\ i' = i + 1
               /\ UNCHANGED <<pc, err>>
    /\ UNCHANGED <<ids, id2data, missing, path, saved, files, dates, ret>>

\* the iteration with data = id2data.pop(id_i)
CheckStepPops ==
    /\ pc = "check"
    /\ i <= Len(ids)
    /\ LET id_i == ids[i]
           data == id2data[id_i]
       IN /\ id2data' = DictPop(id2data, id_i)
          /\ IF Len(MessDatum(data)) = 0
             THEN /\ pc' = "aborted"
                  /\ err' = "IndexError"
                  /\ UNCHANGED <<misssing, out, i>>
             ELSE /\ misssing' = <<find_missing_dates(MessDatum(data))>>
                  /\ IF missing = <<>>
                     THEN /\ pc' = "aborted"
                          /\ err' = "NameError"
                          /\ UNCHANGED <<out, i>>
                     ELSE /\ out' = Append(out, [id |-> id_i,
                                       branch |-> IF Truthy(missing[1])
                                                  THEN "missing" ELSE "none"])
                          /\ i' = i + 1
                          /\ UNCHANGED <<pc, err>>
    /\ UNCHANGED <<ids, missing, path, saved, files, dates, ret>>

CheckStep ==
    /\ pc = "check"
    /\ i <= Len(ids)
    /\ LET id_i == ids[i]
           data == id2data[id_i]
       IN IF Len(MessDatum(data)) = 0
          THEN \* find_missing_dates: dates_list[0] on an empty list
               /\ pc' = "aborted"
               /\ err' = "IndexError"
               /\ UNCHANGED <<misssing, out, i>>
          ELSE /\ misssing' = <<find_missing_dates(MessDatum(data))>>
               /\ IF missing = <<>>
                  THEN \* `if missing:` reads an unbound name
                       /\ pc' = "aborted"
                       /\ err' = "NameError"
                       /\ UNCHANGED <<out, i>>
                  ELSE /\ out' = Append(out, [id |-> id_i,
                                    branch |-> IF Truthy(missing[1])
                                               THEN "missing" ELSE "none"])
                       /\ i' = i + 1
                       /\ UNCHANGED <<pc, err>>
    /\ UNCHANGED <<ids, id2data, missing, path, saved, files, dates, ret>>

\* the reporting loop ends; cell 8 calls save_data(id2data)
CheckDone ==
    /\ pc = "check"
    /\ i > Len(ids)
    /\ pc' = "save"
    /\ UNCHANGED <<ids, id2data, i, missing, misssing, out, err, path, saved,
                   files, dates, ret>>

---------------------------------------------------------------------------
\* Cell 7: save_data(datadict, path); datadict is id2data.

\* full_path with the id left out of the name
FullPathNoId(p, id_i) == p \o "station_"

\* name = 'station_' + str(id_i); full_path = path + name
FullPath(p, id_i) == p \o ("station_" \o Str(id_i))

\* one iteration of "for id_i in datadict.keys()"; a dict of Python 3.5
\* yields its keys in no particular order
SaveStep ==
    /\ pc = "save"
    /\ \E id_i \in DOMAIN id2data \ saved :
          /\ files' = DictSet(files, FullPath(path, id_i), ToCsv(id2data[id_i]))
          /\ saved' = saved \cup {id_i}
    /\ UNCHANGED <<pc, ids, id2data, i, missing, misssing, out, err, path,
                   dates, ret>>

\* the loop is over: save_data returns None
SaveDone ==
    /\ pc = "save"
    /\ saved = DOMAIN id2data
    /\ pc' = "done"
    /\ UNCHANGED <<ids, id2data, i, missing, misssing, out, err, path, saved,
                   files, dates, ret>>

---------------------------------------------------------------------------
\* The notebook run, cells 3 to 8 top to bottom.  Nothing in the notebook
\* assigns the global name `missing`: it is unbound in a fresh kernel, and
\* bound to a false value in the recorded run (every station printed
\* "no missing days"), so the run starts with either.

InitRun ==
    /\ pc = "load"
    /\ ids \in IdSeqs(StationIds)
    /\ id2data = <<>>
    /\ i = 1
    /\ missing \in {<<>>, << <<>> >>}
    /\ misssing = <<>>
    /\ out = <<>>
    /\ err = "none"
    /\ path = DefaultPath
    /\ saved = {}
    /\ files = <<>>
    /\ dates = <<>>
    /\ ret = <<>>

NextRun ==
    \/ LoadStep
    \/ LoadDone
    \/ CheckStep
    \/ CheckDone
    \/ SaveStep
    \/ SaveDone

SpecRun == InitRun /\ [][NextRun]_vars

\* A direct call save_data(datadict, path) on any mapping.
Dicts(keys) == UNION {[K -> UNION {SeriesOf(id, SaveDates, SaveValues, SaveMaxLen) : id \in K}] : K \in SUBSET keys}

InitSave ==
    /\ pc = "save"
    /\ id2data \in {d \in Dicts(StationIds) :
                       \A id \in DOMAIN d : \A k \in DOMAIN d[id] :
                           d[id][k].stations_id = id}
    /\ path \in Paths
    /\ ids = <<>>
    /\ i = 1
    /\ missing = <<>>
    /\ misssing = <<>>
    /\ out = <<>>
    /\ err = "none"
    /\ saved = {}
    /\ files = <<>>
    /\ dates = <<>>
    /\ ret = <<>>

NextSave ==
    \/ SaveStep
    \/ SaveDone

SpecSave == InitSave /\ [][NextSave]_vars

---------------------------------------------------------------------------
\* Properties of find_missing_dates, under SpecFmd.

Ascending(ds) == \A k \in 1..(Len(ds) - 1) : ds[k] <= ds[k + 1]
StrictlyAscending(ds) == \A k \in 1..(Len(ds) - 1) : ds[k] < ds[k + 1]
GapFree(ds) == \A k \in 1..(Len(ds) - 1) : ds[k + 1] = ds[k] + 1

\* the dates of the range [start, end) that the input lacks
RangeMinusSupplied(ds) == {d \in ds[1]..(ds[Len(ds)] - 1) : d \notin SetOf(ds)}

\* C1: for a non-empty ascending sequence of distinct dates the result is
\* exactly the dates of [start, end) absent from the input.
C1_ReturnsRangeMinusSupplied ==
    (pc = "returned" /\ StrictlyAscending(dates))
        => ret[1] = Sorted(RangeMinusSupplied(dates))

\* C2: for a gap-free sequence of consecutive days (one element included)
\* the result is the empty list.
C2_GapFreeReturnsEmpty ==
    (pc = "returned" /\ GapFree(dates)) => ret[1] = <<>>

\* C3: for a non-empty ascending input the result never contains end, the
\* last element of the input.
C3_NeverContainsEnd ==
    (pc = "returned" /\ Ascending(dates))
        => dates[Len(dates)] \notin SetOf(ret[1])

\* C4: for every non-empty input, duplicates included, the result is in
\* strictly ascending order, no date repeated.
C4_ResultStrictlyAscending ==
    pc = "returned" => StrictlyAscending(ret[1])

C4_Witness ==
    /\ pc = "returned"
    /\ Len(ret[1]) >= 2
    /\ Cardinality(SetOf(dates)) < Len(dates)

\* C10: for every non-empty input, sorted or not, every date of the result
\* is an element of the input.
C10_ResultSubsetOfInput ==
    pc = "returned" => SetOf(ret[1]) \subseteq SetOf(dates)

C10_Witness ==
    /\ pc = "returned"
    /\ ~Ascending(dates)
    /\ Len(ret[1]) >= 2

\* What the code returns instead (see C1, C2, C3): the input's dates that lie
\* outside [start, end), which for an ascending input is the last date alone.
FmdAscendingReturnsEnd ==
    (pc = "returned" /\ Ascending(dates)) => ret[1] = <<dates[Len(dates)]>>

---------------------------------------------------------------------------
\* Properties of the notebook run, under SpecRun.

\* the ids of the stations reported so far, in order
Reported == [k \in DOMAIN out |-> out[k].id]

\* a station among ids[1..n] has an empty series (id2data is loaded)
HasEmptySeries == \E k \in DOMAIN ids : id2data[ids[k]] = <<>>
FirstEmpty == CHOOSE k \in DOMAIN ids :
                  /\ id2data[ids[k]] = <<>>
                  /\ \A h \in 1..(k - 1) : id2data[ids[h]] # <<>>

Loaded == pc \in {"check", "save", "done", "aborted"}

C7_EmptySeriesEndsRunThere ==
    (Loaded /\ HasEmptySeries) =>
        /\ pc \in {"check", "aborted"}
        /\ files = <<>>
        /\ saved = {}
        /\ pc = "aborted" =>
              /\ err = "IndexError"
              /\ i = FirstEmpty
              /\ Reported = SubSeq(ids, 1, FirstEmpty - 1)

\* What holds of a run with an empty series: it ends at or before that
\* station, with save_data never run; it ends at that station, in
\* find_missing_dates, when the name `missing` is bound.
EmptySeriesEndsRun ==
    (Loaded /\ HasEmptySeries) =>
        /\ pc \in {"check", "aborted"}
        /\ files = <<>>
        /\ saved = {}
        /\ i <= FirstEmpty
        /\ Len(out) < FirstEmpty
        /\ pc = "aborted" =>
              \/ err = "IndexError" /\ i = FirstEmpty
              \/ err = "NameError" /\ missing = <<>> /\ i = 1

\* C8: gap detection is read-only: the reporting loop leaves id2data as the
\* loader built it, and so does save_data, whose files hold exactly those
\* series.
C8_GapCheckReadOnly ==
    /\ [][(pc \in {"check", "save"}) => (id2data' = id2data)]_vars
    /\ [](\A id \in saved : files[FullPath(path, id)] = ToCsv(id2data[id]))

C8_Witness ==
    /\ pc = "done"
    /\ Len(ids) = 2
    /\ \A id \in SetOf(ids) : Len(id2data[id]) = 2 /\ ~Ascending(MessDatum(id2data[id]))
    /\ Cardinality(DOMAIN files) = 2

---------------------------------------------------------------------------
\* Properties of save_data, under SpecSave.

\* path + 'station_' + str(id) for the station ids, written out
IdText == (395 :> "395") @@ (399 :> "399")
ExpectedName(p, id) == p \o "station_" \o IdText[id]

\* C6: after save_data(datadict, path) the files written are exactly
\* path + 'station_' + str(id) for the keys id of datadict, one file per key;
\* for the empty mapping none is written, and the call does not raise.
C6_OneFilePerKey ==
    /\ DOMAIN files = {ExpectedName(path, id) : id \in saved}
    /\ Cardinality(DOMAIN files) = Cardinality(saved)
    /\ pc = "done" => (saved = DOMAIN id2data /\ err = "none")
    /\ pc \in {"save", "done"}

C6_Witness ==
    /\ pc = "done"
    /\ Cardinality(DOMAIN id2data) = 2
    /\ path # DefaultPath
    /\ Cardinality(DOMAIN files) = 2

\* the empty mapping: save_data returns with no file written
C6_EmptyMappingWitness ==
    pc = "done" /\ id2data = <<>> /\ files = <<>>

\* C9: a series written by save_data and read back as semicolon-delimited
\* text with a header row has the same column names and the same rows in
\* the same order.
C9_RoundTrip ==
    \A id \in saved :
        ReadCsv(files[FullPath(path, id)]) = [columns |-> Columns, rows |-> id2data[id]]

C9_Witness ==
    /\ pc = "done"
    /\ \E id \in saved :
          LET data == id2data[id]
          IN /\ Len(data) = 2
             /\ data[1].mess_datum > data[2].mess_datum
             /\ data[1].value = <<>>
             /\ data[2].value = <<-3>>

===========================================================================
